---- MODULE Spec2Model ----
(***************************************************************************)
(* codex-loop (src/src/cli.js): the iteration loop of main() and the       *)
(* helpers it calls, as a state machine.  One action per block of the loop *)
(* body; the working tree, the log directory and .codex/state.json are the *)
(* state the blocks read and write.                                        *)
(***************************************************************************)
EXTENDS Integers, Sequences, FiniteSets, TLC

\* Largest value of config.loop.maxLoops explored.
MaxLoops == 2

(***************************************************************************)
(* JavaScript values.  A text is a sequence of characters; a value that    *)
(* may be null carries a tag.                                              *)
(***************************************************************************)
NoText == <<>>

JsNum(n) == [t |-> "number", n |-> n, s |-> NoText]

JsStr(s) == [t |-> "string", n |-> 0, s |-> s]

JsNull == [t |-> "null", n |-> 0, s |-> NoText]

JsUndefined == [t |-> "undefined", n |-> 0, s |-> NoText]

JsBool(b) == [t |-> "boolean", n |-> IF b THEN 1 ELSE 0, s |-> NoText]

\* JavaScript truthiness of a text: the empty string is falsy.
Truthy(text) == Len(text) > 0

\* `value || ''` for a string-or-null value.
OrEmpty(v) == IF v.t = "string" /\ Truthy(v.s) THEN v.s ELSE NoText

\* String.prototype.includes
Includes(text, needle) ==
  \E k \in 0..(Len(text) - Len(needle)) : SubSeq(text, k + 1, k + Len(needle)) = needle

(***************************************************************************)
(* Configuration (DEFAULT_CONFIG merged with .codex/config.json and argv). *)
(***************************************************************************)
\* config.prompt.completionKey
completionKey == <<"P", "R", "O", "M", "I", "S", "E">>

NoCommand == ""

TestCommands == {NoCommand, "npm test"}

Configs ==
  [ maxLoops : 0..MaxLoops,
    stopOnPromise : BOOLEAN,
    stopOnTestsPass : BOOLEAN,
    stopOnNoDiff : BOOLEAN,
    ignoreUntrackedForNoDiff : BOOLEAN,
    test : TestCommands,
    commitEachIteration : BOOLEAN,
    stageOnCommit : {"tracked", "all"},
    allowEmptyCommit : BOOLEAN ]

(***************************************************************************)
(* Pure helpers of cli.js.                                                 *)
(***************************************************************************)
\* parsePromise looking for `${key}:true`, without the space.
parsePromiseNoSpace(output, key) ==
  IF Len(output) = 0 THEN FALSE
  ELSE \E k \in 0..(Len(output) - Len(key) - 5) :
         SubSeq(output, k + 1, k + Len(key) + 5) = key \o <<":", "t", "r", "u", "e">>

\* parsePromise that wants the output to begin with `${key}: true`.
parsePromiseAtStart(output, key) ==
  IF ~Truthy(output) THEN FALSE
  ELSE LET marker == key \o <<":", " ", "t", "r", "u", "e">>
       IN Len(marker) <= Len(output) /\ SubSeq(output, 1, Len(marker)) = marker

\* parsePromise(output, key): `${key}: true` occurs in the output.
parsePromise(output, key) ==
  IF ~Truthy(output) THEN FALSE
  ELSE Includes(output, key \o <<":", " ", "t", "r", "u", "e">>)

\* What String.prototype.trim removes at both ends.
Whitespace == {" ", "\t", "\r", "\n"}

RECURSIVE TrimStart(_)
TrimStart(text) ==
  IF text # NoText /\ Head(text) \in Whitespace THEN TrimStart(Tail(text)) ELSE text

RECURSIVE TrimEnd(_)
TrimEnd(text) ==
  IF text # NoText /\ text[Len(text)] \in Whitespace
  THEN TrimEnd(SubSeq(text, 1, Len(text) - 1))
  ELSE text

\* String.prototype.trim
Trim(text) == TrimEnd(TrimStart(text))

\* String.prototype.indexOf: the offset of the first occurrence, or -1.
IndexOf(text, needle) ==
  LET at == {k \in 0..(Len(text) - Len(needle)) :
               SubSeq(text, k + 1, k + Len(needle)) = needle}
  IN IF at = {} THEN -1 ELSE CHOOSE k \in at : \A other \in at : k <= other

\* text.split(/\r?\n/): the lines of a text.
RECURSIVE Split(_)
Split(text) ==
  LET k == IndexOf(text, <<"\n">>)
  IN IF k = -1 THEN <<text>>
     ELSE LET end == IF k > 0 /\ text[k] = "\r" THEN k - 1 ELSE k
          IN <<SubSeq(text, 1, end)>> \o Split(SubSeq(text, k + 2, Len(text)))

\* String.prototype.slice(0, n)
Slice(text, n) == SubSeq(text, 1, IF Len(text) < n THEN Len(text) ELSE n)

\* The length firstLineSummary cuts the line to.
SummaryLength == 72

Updates == <<"u", "p", "d", "a", "t", "e", "s">>

\* firstLineSummary that cuts the line before it trims it.
firstLineSummaryCutFirst(text) ==
  IF ~Truthy(text) THEN Updates
  ELSE LET lines == Split(text)
           found == {k \in 1..Len(lines) : Len(Trim(lines[k])) > 0}
       IN IF found = {} THEN Updates
          ELSE Trim(Slice(lines[CHOOSE k \in found : \A other \in found : k <= other],
                          SummaryLength))

\* firstLineSummary(text): the first line that is not blank, trimmed and cut,
\* or 'updates'.
firstLineSummary(text) ==
  IF ~Truthy(text) THEN Updates
  ELSE LET lines == Split(text)
           found == {k \in 1..Len(lines) : Len(Trim(lines[k])) > 0}
       IN IF found = {} THEN Updates
          ELSE Slice(Trim(lines[CHOOSE k \in found : \A other \in found : k <= other]),
                     SummaryLength)

\* The grave accent, a character that cannot stand in a string here.
Grave == "U+0060"

\* The replacement patterns of String.prototype.replace: $$ is a dollar sign,
\* $& the matched text, $ with a grave accent the text before the match, $
\* with an apostrophe the text after it.
RECURSIVE Expand(_, _, _, _)
Expand(replacement, matched, before, after) ==
  IF replacement = NoText THEN NoText
  ELSE IF Len(replacement) >= 2 /\ replacement[1] = "$"
            /\ replacement[2] \in {"$", "&", Grave, "'"}
  THEN (CASE replacement[2] = "$" -> <<"$">>
          [] replacement[2] = "&" -> matched
          [] replacement[2] = Grave -> before
          [] replacement[2] = "'" -> after)
       \o Expand(SubSeq(replacement, 3, Len(replacement)), matched, before, after)
  ELSE <<Head(replacement)>> \o Expand(Tail(replacement), matched, before, after)

\* String.prototype.replace(pattern, replacement) with a string pattern: the
\* first occurrence is replaced, by the expanded replacement.
Replace(text, pattern, replacement) ==
  LET k == IndexOf(text, pattern)
  IN IF k = -1 THEN text
     ELSE LET before == SubSeq(text, 1, k)
              after == SubSeq(text, k + Len(pattern) + 1, Len(text))
          IN before \o Expand(replacement, pattern, before, after) \o after

\* String(i) for an index.
RECURSIVE Decimal(_)
Decimal(n) ==
  LET digit == <<"0", "1", "2", "3", "4", "5", "6", "7", "8", "9">>[(n % 10) + 1]
  IN IF n < 10 THEN <<digit>> ELSE Decimal(n \div 10) \o <<digit>>

\* DEFAULT_CONFIG.git.commitMessageTemplate
commitMessageTemplate ==
  <<"c", "o", "d", "e", "x", "-", "l", "o", "o", "p", ":", " ", "i", "t", "e", "r",
    " ", "{", "n", "}", " ", "-", " ", "{", "s", "u", "m", "m", "a", "r", "y", "}">>

\* main(): the commit message of iteration n for the transcript.
commitMessage(template, n, output) ==
  Replace(Replace(template, <<"{", "n", "}">>, Decimal(n)),
          <<"{", "s", "u", "m", "m", "a", "r", "y", "}">>, firstLineSummary(output))

\* buildPrompt: the test command it returns for the answers given.
finalTest(testCommand, existingTest) ==
  IF testCommand # NoCommand THEN testCommand
  ELSE IF existingTest # NoCommand THEN existingTest
  ELSE "(none)"

\* The loop condition with < for <=.
LoopCondStrict(k, cfg) == k < cfg.maxLoops

\* The for-loop condition of main().
LoopCond(k, cfg) == k <= cfg.maxLoops

(***************************************************************************)
(* The working tree as git sees it.                                        *)
(***************************************************************************)
Trees == [unstaged : BOOLEAN, staged : BOOLEAN, untracked : BOOLEAN]

CleanTree == [unstaged |-> FALSE, staged |-> FALSE, untracked |-> FALSE]

\* A status query that lists untracked files whatever the flag.
gitStatusAll(tree, uno) ==
  (IF tree.staged THEN <<"M  ">> ELSE <<>>)
    \o (IF tree.unstaged THEN <<" M ">> ELSE <<>>)
    \o (IF tree.untracked THEN <<"?? ">> ELSE <<>>)

\* git status --porcelain [-uno]: one line per kind of pending change.
gitStatus(tree, uno) ==
  (IF tree.staged THEN <<"M  ">> ELSE <<>>)
    \o (IF tree.unstaged THEN <<" M ">> ELSE <<>>)
    \o (IF tree.untracked /\ ~uno THEN <<"?? ">> ELSE <<>>)

\* git diff: the unstaged changes of tracked files.
gitDiff(tree) == IF tree.unstaged THEN <<"d", "i", "f", "f">> ELSE NoText

\* git add -u
gitAddTracked(tree) ==
  [tree EXCEPT !.staged = tree.staged \/ tree.unstaged, !.unstaged = FALSE]

\* git add .
gitAddAll(tree) ==
  [unstaged |-> FALSE,
   staged |-> tree.staged \/ tree.unstaged \/ tree.untracked,
   untracked |-> FALSE]

\* What the agent may do to the tree during one invocation.
Touches == {"none", "tracked", "untracked"}

ApplyTouch(tree, touch) ==
  [tree EXCEPT
     !.unstaged = tree.unstaged \/ touch = "tracked",
     !.untracked = tree.untracked \/ touch = "untracked"]

(***************************************************************************)
(* The agent subprocess: spawnSync results.                                *)
(***************************************************************************)
PlainText == <<"o", "k">>

MarkerText ==
  <<"o", "k", "\n", "P", "R", "O", "M", "I", "S", "E", ":", " ", "t", "r", "u", "e", "!">>

Transcripts == {NoText, PlainText, MarkerText}

AgentResults ==
  \* the process exited with status 0
  { [status |-> JsNum(0), stdout |-> JsStr(s)] : s \in Transcripts }
  \* the process exited with another status
  \cup { [status |-> JsNum(1), stdout |-> JsStr(PlainText)] }
  \* the binary could not be spawned
  \cup { [status |-> JsNull, stdout |-> JsNull] }
  \* the process was killed by a signal
  \cup { [status |-> JsNull, stdout |-> JsStr(PlainText)] }

NoResult == [status |-> JsNull, stdout |-> JsNull]

(***************************************************************************)
(* The checkpoint log: one unit per iteration index, a set of file names.  *)
(***************************************************************************)
Artifacts == <<"prompt.md", "output.txt", "diff.patch", "meta.json">>

\* The files logIteration attempts, in the order of its statements.
Attempted(data) ==
  SelectSeq(Artifacts,
            LAMBDA f : \/ f = "prompt.md" /\ Truthy(data.prompt)
                       \/ f = "output.txt" /\ Truthy(data.output)
                       \/ f = "diff.patch" /\ Truthy(data.diff)
                       \/ f = "meta.json" /\ data.meta)

\* Where a file-system call of logIteration may throw.
FailPoints(data) ==
  {"none", "mkdir"} \cup {Attempted(data)[k] : k \in 1..Len(Attempted(data))}

Position(seq, x) == CHOOSE k \in 1..Len(seq) : seq[k] = x

\* logIteration(baseDir, iteration, data): the unit afterwards, and whether
\* it threw.  Writes before the failing call have happened.
logIteration(unit, data, failAt) ==
  LET att == Attempted(data)
      upto == IF failAt = "none" THEN Len(att)
              ELSE IF failAt = "mkdir" THEN 0
              ELSE Position(att, failAt) - 1
  IN [unit |-> unit \cup {att[k] : k \in 1..upto},
      threw |-> failAt # "none"]

\* The metadata of an iteration's checkpoint: { exitCode: result.status }.
MetaOf(r) == [exitCode |-> r.status]

\* JSON.stringify of the metadata: null is written as null.
Stringify(meta) ==
  <<"{", "e", ":">>
    \o (IF meta.exitCode.t = "number" THEN Decimal(meta.exitCode.n) ELSE <<"n", "u", "l", "l">>)
    \o <<"}">>

\* A write that adds the content at the end of the file.
appendFileSync(old, content) == JsStr(OrEmpty(old) \o content)

\* fs.writeFileSync(path, content): the file afterwards, whatever it held.
writeFileSync(old, content) == JsStr(content)

\* The content logIteration writes into an artifact.
ContentOf(f, data, meta) ==
  CASE f = "prompt.md" -> data.prompt
    [] f = "output.txt" -> data.output
    [] f = "diff.patch" -> data.diff
    [] f = "meta.json" -> Stringify(meta)

\* An iter-<index> directory that does not exist yet: no artifact has content.
NoFiles == [f \in {"prompt.md", "output.txt", "diff.patch", "meta.json"} |-> JsNull]

\* logIteration(baseDir, iteration, data) on the contents of iter-<iteration>:
\* every artifact it attempts is written, the others are left alone.
logIterationFiles(files, data, meta) ==
  LET att == Attempted(data)
  IN [f \in DOMAIN files |->
        IF \E k \in 1..Len(att) : att[k] = f
        THEN writeFileSync(files[f], ContentOf(f, data, meta))
        ELSE files[f]]

(***************************************************************************)
(* State.                                                                  *)
(***************************************************************************)
VARIABLES
  config,        \* the resolved configuration
  pc,            \* the block of main() to run next
  i,             \* the loop counter
  tree,          \* the working tree
  result,        \* the spawnSync result of the agent
  output,        \* result.stdout || ''
  diff,          \* git diff output
  promiseFound,
  stopOnTests,
  stopOnNoDiff,
  agentTouch,    \* what the agent did to the tree in this iteration
  testStatus,    \* testResult.status of this iteration
  porcelain,     \* status.stdout of the no-diff query of this iteration
  logs,          \* index -> files of iter-<index>
  state,         \* .codex/state.json
  invoked,       \* the indices the agent was invoked for, in order
  trace,         \* the side effects of the current iteration, in order
  threw,         \* the file-system call that threw, or "none"
  promptText,    \* the text read from the prompt file before the loop
  promptFile,    \* the content of the prompt file in the working tree
  snapshot,      \* the content of iter-0/prompt.md, null while there is none
  inputs,        \* the input the agent was given, per invocation
  argv,          \* the flags of the command line
  codex,         \* config.codex: yolo and forceYolo
  executed,      \* what a dry run has executed so far (no other run is observed)
  call,          \* a helper called on its own: its name and its arguments
  ret            \* what that call returned, null before it has

vars ==
  <<config, pc, i, tree, result, output, diff, promiseFound,
    stopOnTests, stopOnNoDiff, agentTouch, testStatus, porcelain, logs, state,
    invoked, trace, threw, promptText, promptFile, snapshot, inputs,
    argv, codex, executed, call, ret>>

\* const runId = formatTimestamp(); const branch = await maybeCreateBranch(...):
\* both are bound once, before the loop.
runId == "20261102-090000"

branch == "codex/20261102-090000"

\* .codex/state.json before the first state write of the run.
\* The text of the prompt file: the rendered template is not empty, a file
\* that is only read may be.
RenderedPrompt == <<"p">>

PromptFiles == {NoText, RenderedPrompt}

NoState ==
  [written |-> FALSE, iteration |-> 0, promiseFound |-> FALSE, runId |-> "", branch |-> ""]

\* The record writeState is called with.
StateData(iteration, found) ==
  [written |-> TRUE, iteration |-> iteration, promiseFound |-> found,
   runId |-> runId, branch |-> branch]

\* minimist(process.argv.slice(2)): the boolean flags main() reads, under
\* the names main() gives them.
Argv ==
  [help : BOOLEAN, printConfig : BOOLEAN, yolo : BOOLEAN, forceYolo : BOOLEAN,
   dryRun : BOOLEAN, promptOnly : BOOLEAN, runLoop : BOOLEAN,
   updatePromptFlag : BOOLEAN, defaultsMode : BOOLEAN]

\* codex-loop and codex-loop --run-loop, the questions answered at the
\* terminal.
LoopArgv ==
  {a \in Argv : /\ ~a.help /\ ~a.printConfig /\ ~a.yolo /\ ~a.forceYolo /\ ~a.dryRun
                /\ ~a.promptOnly /\ ~a.updatePromptFlag /\ ~a.defaultsMode}

\* DEFAULT_CONFIG.codex.
DefaultCodex == [yolo |-> FALSE, forceYolo |-> FALSE]

\* No helper is called on its own.
NoCall == [fn |-> "main"]

\* The locals of main() and the logs before anything has run.
Idle ==
  /\ i = 0
  /\ tree = CleanTree
  /\ result = NoResult
  /\ output = NoText
  /\ diff = NoText
  /\ promiseFound = FALSE
  /\ stopOnTests = FALSE
  /\ stopOnNoDiff = FALSE
  /\ agentTouch = "none"
  /\ testStatus = JsNull
  /\ porcelain = <<>>
  /\ logs = [k \in 0..MaxLoops |-> {}]
  /\ state = NoState
  /\ invoked = <<>>
  /\ trace = <<>>
  /\ threw = "none"
  /\ promptText = NoText
  /\ snapshot = JsNull
  /\ inputs = <<>>
  /\ executed = {}

\* main() past its checks of the command line, with the default config.codex.
Fresh ==
  /\ pc = "setup"
  /\ codex = DefaultCodex
  /\ call = NoCall
  /\ ret = JsNull
  /\ Idle

\* codex-loop --run-loop with any configuration and a prompt file that has
\* text.
Init ==
  /\ config \in Configs
  /\ argv \in {a \in LoopArgv : a.runLoop}
  /\ promptFile = RenderedPrompt
  /\ Fresh

\* The configurations that leave the commit block and the test command out.
PayloadConfigs ==
  {c \in Configs : /\ ~c.commitEachIteration /\ ~c.allowEmptyCommit
                   /\ c.stageOnCommit = "tracked" /\ c.test = NoCommand}

\* Any prompt file, the empty one included.
InitPayload ==
  /\ config \in PayloadConfigs
  /\ argv \in LoopArgv
  /\ promptFile \in PromptFiles
  /\ Fresh

\* DEFAULT_CONFIG, with a ceiling of one iteration.
DefaultConfig ==
  [maxLoops |-> 1, stopOnPromise |-> TRUE, stopOnTestsPass |-> FALSE,
   stopOnNoDiff |-> FALSE, ignoreUntrackedForNoDiff |-> TRUE, test |-> NoCommand,
   commitEachIteration |-> TRUE, stageOnCommit |-> "tracked",
   allowEmptyCommit |-> FALSE]

\* Any command line, before main() has looked at it.
InitCli ==
  /\ pc = "start"
  /\ argv \in Argv
  /\ codex = DefaultCodex
  /\ config = DefaultConfig
  /\ promptFile = RenderedPrompt
  /\ call = NoCall
  /\ ret = JsNull
  /\ Idle

payload == <<promptText, promptFile, snapshot, inputs>>

cli == <<argv, codex, executed>>

helper == <<call, ret>>

loopLocals ==
  <<result, output, diff, promiseFound, stopOnTests, stopOnNoDiff, agentTouch,
    testStatus, porcelain>>

(***************************************************************************)
(* Before the loop.                                                        *)
(***************************************************************************)
\* ensureGitignore: appends the missing entries to .gitignore, which is
\* complete already, a tracked file, or absent.
ensureGitignore(t, gitignore) ==
  CASE gitignore = "complete" -> t
    [] gitignore = "tracked" -> [t EXCEPT !.unstaged = TRUE]
    [] gitignore = "absent" -> [t EXCEPT !.untracked = TRUE]

\* ask(question, defaultsMode) for a question of type confirm: defaultAnswer
\* is true, at the terminal the answer is the user's.
Confirm(defaultsMode) == IF defaultsMode THEN {TRUE} ELSE BOOLEAN

\* prepareCodexArgs: the approval arguments of the agent's command line.
prepareCodexArgs(cdx) == {"exec"} \cup (IF cdx.yolo THEN {"--yolo"} ELSE {"--full-auto"})

\* A guard that refuses --yolo only when it comes from the command line.
StartTrustingFile ==
  /\ pc = "start"
  /\ \E fileConfig \in [yolo : BOOLEAN, forceYolo : BOOLEAN] :
       LET merged == [yolo |-> argv.yolo \/ fileConfig.yolo,
                      forceYolo |-> argv.forceYolo \/ fileConfig.forceYolo]
       IN IF argv.help
          THEN pc' = "exit 0" /\ codex' = codex
          ELSE IF argv.promptOnly /\ argv.runLoop
          THEN pc' = "exit 1" /\ codex' = codex
          ELSE /\ codex' = merged
               /\ pc' = IF argv.printConfig THEN "exit 0"
                        ELSE IF argv.yolo /\ ~merged.forceYolo THEN "exit 1"
                        ELSE "setup"
  /\ UNCHANGED <<argv, executed, helper, config, i, tree, loopLocals, logs, state, invoked,
                 trace, threw, payload>>

\* main(): the checks of the command line.  --help prints the usage,
\* --prompt-only with --run-loop is an error, .codex/config.json and the flags
\* are merged into the configuration, --print-config prints it, and yolo
\* without forceYolo is refused.
Start ==
  /\ pc = "start"
  /\ \E fileConfig \in [yolo : BOOLEAN, forceYolo : BOOLEAN] :
       LET merged == [yolo |-> argv.yolo \/ fileConfig.yolo,
                      forceYolo |-> argv.forceYolo \/ fileConfig.forceYolo]
       IN IF argv.help
          THEN pc' = "exit 0" /\ codex' = codex
          ELSE IF argv.promptOnly /\ argv.runLoop
          THEN pc' = "exit 1" /\ codex' = codex
          ELSE /\ codex' = merged
               /\ pc' = IF argv.printConfig THEN "exit 0"
                        ELSE IF merged.yolo /\ ~merged.forceYolo THEN "exit 1"
                        ELSE "setup"
  /\ UNCHANGED <<argv, executed, helper, config, i, tree, loopLocals, logs, state, invoked,
                 trace, threw, payload>>

\* maybeCreateBranch: with config.branch.create, the default, and the user's
\* consent a dry run prints the branch and any other run checks it out.
maybeCreateBranch(done, dryRun, createBranch) ==
  IF createBranch /\ ~dryRun THEN done \cup {"git checkout -b"} ELSE done

\* main(): .gitignore and, when missing, .codex/config.json are written,
\* unless the run is a dry run; then confirmRepo and maybeCreateBranch.
Setup ==
  /\ pc = "setup"
  /\ \E gitignore \in {"complete", "tracked", "absent"}, haveConfig \in BOOLEAN :
       tree' = IF argv.dryRun THEN tree
               ELSE LET t == ensureGitignore(tree, gitignore)
                    IN IF haveConfig THEN t ELSE [t EXCEPT !.untracked = TRUE]
  /\ \E createBranch \in Confirm(argv.defaultsMode) :
       executed' = IF argv.dryRun
                   THEN maybeCreateBranch(executed, argv.dryRun, createBranch)
                   ELSE executed
  /\ pc' = "prompt"
  /\ UNCHANGED <<argv, codex, helper, config, i, loopLocals, logs, state, invoked, trace,
                 threw, payload>>

\* buildPrompt writes the rendered prompt to config.prompt.path.
writePrompt(t, written) ==
  CASE written = "unchanged" -> t
    [] written = "tracked" -> [t EXCEPT !.unstaged = TRUE]
    [] written = "untracked" -> [t EXCEPT !.untracked = TRUE]

\* What the agent writes into the prompt file when it edits it.
RewrittenPrompt == <<"q">>

\* runScopeAssist: a detached worktree is added and, when that worked, the
\* agent is run in it with --full-auto and the worktree is removed again.
runScopeAssist(added) ==
  IF added THEN {"git worktree add", "codex exec --full-auto", "git worktree remove"}
  ELSE {"git worktree add (failed)"}

\* main(): the prompt file is read, or written by buildPrompt, whose answers
\* replace config.loop.maxLoops and config.commands, and read then; promptText
\* is read from the file once.  buildPrompt runs the scope assist when the
\* user agrees to it; a user who declines to update the prompt file ends the
\* run.
Prompt ==
  /\ pc = "prompt"
  /\ IF argv.runLoop /\ ~argv.updatePromptFlag
     THEN /\ promptText' = promptFile
          /\ pc' = "snapshot"
          /\ UNCHANGED <<config, tree, promptFile, executed>>
     ELSE \E updatePrompt \in Confirm(argv.defaultsMode) :
            IF ~argv.updatePromptFlag /\ ~updatePrompt
            THEN /\ pc' = "exit 1"
                 /\ UNCHANGED <<config, tree, promptFile, promptText, executed>>
            ELSE \E testCommand \in TestCommands, existingTest \in TestCommands,
                    loopCount \in 0..MaxLoops,
                    written \in {"unchanged", "tracked", "untracked"},
                    useScopeAssist \in Confirm(argv.defaultsMode), added \in BOOLEAN :
                   /\ config' = [config EXCEPT
                        !.maxLoops = IF loopCount # 0 THEN loopCount ELSE config.maxLoops,
                        !.test = finalTest(testCommand, existingTest)]
                   /\ tree' = writePrompt(tree, written)
                   /\ promptFile' = RenderedPrompt
                   /\ promptText' = RenderedPrompt
                   /\ executed' = IF argv.dryRun /\ useScopeAssist
                                  THEN executed \cup runScopeAssist(added)
                                  ELSE executed
                   /\ pc' = "snapshot"
  /\ UNCHANGED <<argv, codex, helper, i, loopLocals, logs, state, invoked, trace, threw,
                 snapshot, inputs>>

\* main(): a dry run prints the plan, writes the run state for iteration 0
\* when it is a --prompt-only run too, and returns.
DryRun ==
  /\ pc = "snapshot"
  /\ argv.dryRun
  /\ state' = IF argv.promptOnly THEN StateData(0, FALSE) ELSE state
  /\ pc' = "exit 0"
  /\ UNCHANGED <<cli, helper, config, i, tree, loopLocals, logs, invoked, trace, threw,
                 payload>>

\* The data of the iter-0 snapshot: the prompt text and {runId, branch}.
SnapshotData(text) == [prompt |-> text, output |-> NoText, diff |-> NoText, meta |-> TRUE]

\* main(): ensureLogDirs and logIteration(logsRoot, 0, {prompt, meta}); a
\* --prompt-only run writes the run state for iteration 0 and returns, any
\* other enters the loop with i = 1.
Snapshot ==
  /\ pc = "snapshot"
  /\ ~argv.dryRun
  /\ \E failAt \in FailPoints(SnapshotData(promptText)) :
       LET w == logIteration(logs[0], SnapshotData(promptText), failAt)
       IN /\ logs' = [logs EXCEPT ![0] = w.unit]
          /\ snapshot' = IF "prompt.md" \in w.unit THEN JsStr(promptText) ELSE snapshot
          /\ threw' = failAt
          /\ pc' = IF w.threw THEN "aborted"
                   ELSE IF argv.promptOnly THEN "exit 0"
                   ELSE IF LoopCond(1, config) THEN "invoke" ELSE "done"
          /\ state' = IF ~w.threw /\ argv.promptOnly THEN StateData(0, FALSE) ELSE state
          /\ i' = IF w.threw \/ argv.promptOnly THEN i ELSE 1
  /\ UNCHANGED <<cli, helper, config, tree, loopLocals, invoked, trace, promptText,
                 promptFile, inputs>>

(***************************************************************************)
(* The loop body.                                                          *)
(***************************************************************************)
\* An invocation that treats a failed spawnSync result as fatal.
InvokeStrict ==
  /\ pc = "invoke"
  /\ \E r \in AgentResults, touch \in Touches :
       /\ (r.stdout.t = "null") => touch = "none"
       /\ result' = r
       /\ output' = OrEmpty(r.stdout)
       /\ tree' = ApplyTouch(tree, touch)
       /\ promptFile' = IF touch = "tracked" THEN RewrittenPrompt ELSE promptFile
       /\ agentTouch' = touch
       /\ pc' = IF r.status = JsNum(0) THEN "diff" ELSE "aborted"
  /\ diff' = NoText
  /\ promiseFound' = FALSE
  /\ stopOnTests' = FALSE
  /\ stopOnNoDiff' = FALSE
  /\ testStatus' = JsNull
  /\ porcelain' = <<>>
  /\ invoked' = Append(invoked, i)
  /\ inputs' = Append(inputs, promptText)
  /\ trace' = <<"agent">>
  /\ UNCHANGED <<cli, helper, config, i, logs, state, threw, promptText, snapshot>>

\* run(config.codex.path, codexArgs, {input: promptText}); output.  The
\* locals of the loop body are fresh in every iteration.
Invoke ==
  /\ pc = "invoke"
  /\ \E r \in AgentResults, touch \in Touches :
       /\ (r.stdout.t = "null") => touch = "none"
       /\ result' = r
       /\ output' = OrEmpty(r.stdout)
       /\ tree' = ApplyTouch(tree, touch)
       /\ promptFile' = IF touch = "tracked" THEN RewrittenPrompt ELSE promptFile
       /\ agentTouch' = touch
  /\ diff' = NoText
  /\ promiseFound' = FALSE
  /\ stopOnTests' = FALSE
  /\ stopOnNoDiff' = FALSE
  /\ testStatus' = JsNull
  /\ porcelain' = <<>>
  /\ invoked' = Append(invoked, i)
  /\ inputs' = Append(inputs, promptText)
  /\ trace' = <<"agent">>
  /\ pc' = "diff"
  /\ UNCHANGED <<cli, helper, config, i, logs, state, threw, promptText, snapshot>>

\* The diff followed by the stop evaluation, the checkpoint left out.
DiffSkippingCheckpoint ==
  /\ pc = "diff"
  /\ diff' = gitDiff(tree)
  /\ trace' = Append(trace, "diff")
  /\ pc' = "evaluate"
  /\ UNCHANGED <<cli, helper, config, i, tree, result, output, promiseFound, stopOnTests,
                 stopOnNoDiff, agentTouch, testStatus, porcelain, logs, state, invoked,
                 threw, payload>>

\* git(['diff']).stdout || ''
Diff ==
  /\ pc = "diff"
  /\ diff' = gitDiff(tree)
  /\ trace' = Append(trace, "diff")
  /\ pc' = "checkpoint"
  /\ UNCHANGED <<cli, helper, config, i, tree, result, output, promiseFound, stopOnTests,
                 stopOnNoDiff, agentTouch, testStatus, porcelain, logs, state, invoked,
                 threw, payload>>

\* The data of the iter-i checkpoint: output, diff and {exitCode}.
CheckpointData(out, d) == [prompt |-> NoText, output |-> out, diff |-> d, meta |-> TRUE]

\* logIteration(logsRoot, i, {output, diff, meta: {exitCode}}); an exception
\* of a file-system call leaves main() and ends the process.
Checkpoint ==
  /\ pc = "checkpoint"
  /\ \E failAt \in FailPoints(CheckpointData(output, diff)) :
       LET w == logIteration(logs[i], CheckpointData(output, diff), failAt)
       IN /\ logs' = [logs EXCEPT ![i] = w.unit]
          /\ threw' = failAt
          /\ pc' = IF w.threw THEN "aborted" ELSE "evaluate"
  /\ trace' = Append(trace, "checkpoint")
  /\ UNCHANGED <<cli, helper, config, i, tree, loopLocals, state, invoked, payload>>

\* Whether the test command is run: the flag and the command are truthy.
TestsEnabled(cfg) == cfg.stopOnTestsPass /\ cfg.test # NoCommand

\* !testResult.status: null counts as 0.
TestsPassedLoose(status) == status.n = 0

\* testResult.status === 0
TestsPassed(status) == status.t = "number" /\ status.n = 0

\* runShell(command).status: 0, non-zero (127 when the shell finds no such
\* command), or null when the shell could not be spawned or was killed.  The
\* placeholder "(none)" names no command.
ShellStatuses(command) ==
  IF command = "(none)" THEN {JsNum(127), JsNull}
  ELSE {JsNum(0), JsNum(127), JsNull}

\* status.stdout.trim().length === 0
IsEmptyStatus(lines) == Len(lines) = 0

\* The three stop signals: promiseFound, the test command, the no-diff query.
Evaluate ==
  /\ pc = "evaluate"
  /\ promiseFound' = (config.stopOnPromise /\ parsePromise(output, completionKey))
  /\ IF TestsEnabled(config)
     THEN \E status \in ShellStatuses(config.test) :
            /\ testStatus' = status
            /\ stopOnTests' = TestsPassed(status)
     ELSE UNCHANGED <<testStatus, stopOnTests>>
  /\ IF config.stopOnNoDiff
     THEN /\ porcelain' = gitStatus(tree, config.ignoreUntrackedForNoDiff)
          /\ stopOnNoDiff' = IsEmptyStatus(gitStatus(tree, config.ignoreUntrackedForNoDiff))
     ELSE UNCHANGED <<porcelain, stopOnNoDiff>>
  /\ trace' = trace
              \o (IF TestsEnabled(config) THEN <<"test">> ELSE <<>>)
              \o (IF config.stopOnNoDiff THEN <<"status">> ELSE <<>>)
  /\ pc' = "commit"
  /\ UNCHANGED <<cli, helper, config, i, tree, result, output, diff, agentTouch, logs,
                 state, invoked, threw, payload>>

\* config.logging.commitLogs of DEFAULT_CONFIG: the log directory is not staged.
commitLogs == FALSE

\* A gate that lets every iteration commit once commitEachIteration is set.
CommitWantedAlways(cfg, t) == cfg.commitEachIteration

\* Whether the commit block stages and commits.
CommitWanted(cfg, t) ==
  /\ cfg.commitEachIteration
  /\ \/ ~IsEmptyStatus(gitStatus(t, cfg.ignoreUntrackedForNoDiff))
     \/ cfg.allowEmptyCommit

\* git add . or git add -u, and git add -f of the log directory
Stage(cfg, t) ==
  LET s == IF cfg.stageOnCommit = "all" THEN gitAddAll(t) ELSE gitAddTracked(t)
  IN [s EXCEPT !.staged = s.staged \/ commitLogs]

\* A commit block in which a failed git commit ends the run.
CommitStrict ==
  /\ pc = "commit"
  /\ IF CommitWanted(config, tree)
     THEN \E ok \in BOOLEAN :
            LET staged == Stage(config, tree)
                done == ok /\ staged.staged
            IN /\ tree' = IF done THEN [staged EXCEPT !.staged = FALSE] ELSE staged
               /\ trace' = trace \o <<"commit status", "stage",
                                      IF done THEN "commit" ELSE "commit failed">>
               /\ pc' = IF done THEN "state" ELSE "aborted"
     ELSE /\ tree' = tree
          /\ trace' = trace \o (IF config.commitEachIteration
                                THEN <<"commit status">> ELSE <<>>)
          /\ pc' = "state"
  /\ UNCHANGED <<cli, helper, config, i, loopLocals, logs, state, invoked, threw, payload>>

\* A commit block that is skipped in an iteration that is about to stop.
CommitUnlessStopping ==
  /\ pc = "commit"
  /\ IF CommitWanted(config, tree) /\ ~(promiseFound \/ stopOnTests \/ stopOnNoDiff)
     THEN \E ok \in BOOLEAN :
            LET staged == Stage(config, tree)
                done == ok /\ staged.staged
            IN /\ tree' = IF done THEN [staged EXCEPT !.staged = FALSE] ELSE staged
               /\ trace' = trace \o <<"commit status", "stage",
                                      IF done THEN "commit" ELSE "commit failed">>
     ELSE /\ tree' = tree
          /\ trace' = trace \o (IF config.commitEachIteration
                                THEN <<"commit status">> ELSE <<>>)
  /\ pc' = "state"
  /\ UNCHANGED <<cli, helper, config, i, loopLocals, logs, state, invoked, threw, payload>>

\* The commit block: status query, staging, git commit -m, which fails when
\* nothing is staged and may fail otherwise.
Commit ==
  /\ pc = "commit"
  /\ IF CommitWanted(config, tree)
     THEN \E ok \in BOOLEAN :
            LET staged == Stage(config, tree)
                done == ok /\ staged.staged
            IN /\ tree' = IF done THEN [staged EXCEPT !.staged = FALSE] ELSE staged
               /\ trace' = trace \o <<"commit status", "stage",
                                      IF done THEN "commit" ELSE "commit failed">>
     ELSE /\ tree' = tree
          /\ trace' = trace \o (IF config.commitEachIteration
                                THEN <<"commit status">> ELSE <<>>)
  /\ pc' = "state"
  /\ UNCHANGED <<cli, helper, config, i, loopLocals, logs, state, invoked, threw, payload>>

\* A state write that happens only in the iteration that stops the loop.
WriteStateOnStop ==
  /\ pc = "state"
  /\ state' = IF promiseFound \/ stopOnTests \/ stopOnNoDiff
              THEN StateData(i, promiseFound) ELSE state
  /\ trace' = Append(trace, "state")
  /\ pc' = "decide"
  /\ UNCHANGED <<cli, helper, config, i, tree, loopLocals, logs, invoked, threw, payload>>

\* writeState(repoRoot, {repoRoot, branch, runId, iteration: i, promiseFound, timestamp})
WriteState ==
  /\ pc = "state"
  /\ state' = StateData(i, promiseFound)
  /\ trace' = Append(trace, "state")
  /\ pc' = "decide"
  /\ UNCHANGED <<cli, helper, config, i, tree, loopLocals, logs, invoked, threw, payload>>

\* A break in which passing tests count only with an empty status.
BreakTestsNeedNoDiff(p, t, n) == p \/ (t /\ n)

\* if (promiseFound || stopOnTests || stopOnNoDiff) break
Break(p, t, n) == p \/ t \/ n

\* A decision that honours a stop signal from the second iteration on only.
DecideAfterWarmUp ==
  /\ pc = "decide"
  /\ IF Break(promiseFound, stopOnTests, stopOnNoDiff) /\ i >= 2
     THEN /\ pc' = "done"
          /\ i' = i
     ELSE /\ i' = i + 1
          /\ pc' = IF LoopCond(i + 1, config) THEN "invoke" ELSE "done"
  /\ UNCHANGED <<cli, helper, config, tree, loopLocals, logs, state, invoked, trace, threw,
                 payload>>

\* The break, or i += 1 and the loop condition.
Decide ==
  /\ pc = "decide"
  /\ IF Break(promiseFound, stopOnTests, stopOnNoDiff)
     THEN /\ pc' = "done"
          /\ i' = i
     ELSE /\ i' = i + 1
          /\ pc' = IF LoopCond(i + 1, config) THEN "invoke" ELSE "done"
  /\ UNCHANGED <<cli, helper, config, tree, loopLocals, logs, state, invoked, trace, threw,
                 payload>>

Next ==
  \/ Setup
  \/ Prompt
  \/ Snapshot
  \/ Invoke
  \/ Diff
  \/ Checkpoint
  \/ Evaluate
  \/ Commit
  \/ WriteState
  \/ Decide

Spec == Init /\ [][Next]_vars

SpecPayload == InitPayload /\ [][Next]_vars

NextCli ==
  \/ Start
  \/ DryRun
  \/ Next

SpecCli == InitCli /\ [][NextCli]_vars

(***************************************************************************)
(* The helpers, called on their own with arguments drawn from small sets.  *)
(***************************************************************************)
DoneKey == <<"D">>

\* The key parsePromise is called with: none (the default applies), the
\* default, another one, the empty one.
Keys == {JsUndefined, JsStr(completionKey), JsStr(DoneKey), JsStr(NoText)}

\* A default parameter: the default stands in for undefined only.
OrDefault(v, default) == IF v.t = "undefined" THEN default ELSE v.s

Heads == {NoText, <<"x">>, <<"\n">>, <<"P">>}

Middles ==
  { NoText,
    completionKey \o <<":", " ", "t", "r", "u", "e">>,
    completionKey \o <<":", "t", "r", "u", "e">>,
    completionKey \o <<":", " ", "T", "r", "u", "e">>,
    completionKey \o <<":", " ", "t", "r", "u">>,
    <<"R", "O", "M", "I", "S", "E", ":", " ", "t", "r", "u", "e">>,
    DoneKey \o <<":", " ", "t", "r", "u", "e">>,
    <<":", " ", "t", "r", "u", "e">> }

Tails == {NoText, <<"e">>, <<"!">>, <<"\n", "x">>}

\* The transcripts parsePromise is called with: a string, or none.
Outputs == {JsNull, JsUndefined} \cup {JsStr(h \o m \o t) : h \in Heads, m \in Middles, t \in Tails}

ParsePromiseCalls == [fn : {"parsePromise"}, output : Outputs, key : Keys]

\* n times the character c.
Repeat(c, n) == [k \in 1..n |-> c]

\* First lines of a transcript: blank ones, short ones, ones with a dollar
\* sign or a placeholder in them, ones as long as the cut or longer.
FirstLines ==
  { NoText, <<" ">>, <<"f", "i", "x">>, <<" ", "f", "i", "x", "\t">>, <<"{", "n", "}">>,
    <<"$", "&">>, <<"a", "$", "$", "b">>, <<"$", Grave, "x", "$", "'">>,
    Repeat("a", SummaryLength - 1), Repeat("a", SummaryLength),
    Repeat("a", SummaryLength + 1), <<" ">> \o Repeat("a", SummaryLength),
    Repeat("a", SummaryLength - 1) \o <<" ", "b">> }

Leads == {NoText, <<"\n">>, <<" ", "\r", "\n", "\t", "\n">>}

Rests == {NoText, <<"\n", "z">>, <<"\r", "\n", "z">>}

\* The transcripts firstLineSummary is called with: a string, or none.
SummaryOutputs ==
  {JsNull} \cup {JsStr(l \o f \o r) : l \in Leads, f \in FirstLines, r \in Rests}

Templates ==
  { commitMessageTemplate,
    <<"{", "s", "u", "m", "m", "a", "r", "y", "}", " ", "#", "{", "n", "}", " ", "{", "n", "}">>,
    <<"w", "i", "p">> }

SummaryCalls == [fn : {"firstLineSummary"}, output : SummaryOutputs]

CommitMessageCalls ==
  [fn : {"commitMessage"}, output : SummaryOutputs, n : 1..MaxLoops, template : Templates]

\* What logIteration is called with: the prompt of iter-0 or none, a
\* transcript, a diff, and the metadata.
Datas ==
  [prompt : {NoText, RenderedPrompt}, output : {NoText, PlainText},
   diff : {NoText, <<"d">>}, meta : {TRUE}]

Metas == {MetaOf([status |-> st]) : st \in {JsNum(0), JsNum(1), JsNull}}

\* logIteration twice for the same index: with data and meta, then with
\* again and metaAgain.
LogIterationCalls ==
  [fn : {"logIteration"}, data : Datas, meta : Metas, again : Datas, metaAgain : Metas]

Calls ==
  ParsePromiseCalls \cup SummaryCalls \cup CommitMessageCalls \cup LogIterationCalls

\* A helper is about to be called.
InitText ==
  /\ pc = "call"
  /\ call \in Calls
  /\ ret = JsNull
  /\ config = DefaultConfig
  /\ argv \in {a \in LoopArgv : a.runLoop}
  /\ codex = DefaultCodex
  /\ promptFile = RenderedPrompt
  /\ Idle

main == <<config, i, tree, loopLocals, logs, state, invoked, trace, threw, payload, cli>>

\* parsePromise(output, key): `!output` holds of a missing output and of the
\* empty string.
CallParsePromise ==
  /\ pc = "call"
  /\ call.fn = "parsePromise"
  /\ ret' = JsBool(IF call.output.t # "string" THEN FALSE
                   ELSE parsePromise(call.output.s, OrDefault(call.key, completionKey)))
  /\ pc' = "return"
  /\ UNCHANGED <<main, call>>

\* firstLineSummary(text): `!text` holds of a missing text and of the empty
\* string.
CallFirstLineSummary ==
  /\ pc = "call"
  /\ call.fn = "firstLineSummary"
  /\ ret' = JsStr(firstLineSummary(OrEmpty(call.output)))
  /\ pc' = "return"
  /\ UNCHANGED <<main, call>>

\* main(): the commit message, from the template, i and the transcript.
CallCommitMessage ==
  /\ pc = "call"
  /\ call.fn = "commitMessage"
  /\ ret' = JsStr(commitMessage(call.template, call.n, OrEmpty(call.output)))
  /\ pc' = "return"
  /\ UNCHANGED <<main, call>>

\* The storage a call of logIteration has left: the files of the index now,
\* and as the first call left them.
Stored(count, files, first) ==
  [t |-> "files", n |-> count, s |-> NoText, files |-> files, first |-> first]

\* logIteration for one index, a first and a second time.
CallLogIteration ==
  /\ pc \in {"call", "return"}
  /\ call.fn = "logIteration"
  /\ ret.n < 2
  /\ ret' = IF pc = "call"
            THEN LET once == logIterationFiles(NoFiles, call.data, call.meta)
                 IN Stored(1, once, once)
            ELSE Stored(2, logIterationFiles(ret.files, call.again, call.metaAgain),
                        ret.first)
  /\ pc' = "return"
  /\ UNCHANGED <<main, call>>

NextText ==
  \/ CallParsePromise
  \/ CallFirstLineSummary
  \/ CallCommitMessage
  \/ CallLogIteration

SpecText == InitText /\ [][NextText]_vars

(***************************************************************************)
(* What an iteration observed, read off the state.  At "invoke" and at     *)
(* "done" the locals are those of the iteration that finished last,        *)
(* iteration Len(invoked).                                                 *)
(***************************************************************************)
Range(seq) == {seq[k] : k \in 1..Len(seq)}

Marker == completionKey \o <<":", " ", "t", "r", "u", "e">>

\* The iteration that finished last has ended and the loop went on or stopped.
IterationOver == pc \in {"invoke", "done"} /\ invoked # <<>>

\* The completion marker is in the transcript and stopOnPromise is enabled.
SignalPromise == config.stopOnPromise /\ Includes(output, Marker)

\* The test command was run, with exit code 0.
SignalTests ==
  /\ config.stopOnTestsPass
  /\ config.test # NoCommand
  /\ "test" \in Range(trace)
  /\ testStatus = JsNum(0)

\* The no-diff status query was run and printed nothing.
SignalNoDiff ==
  /\ config.stopOnNoDiff
  /\ "status" \in Range(trace)
  /\ porcelain = <<>>

AnySignal == SignalPromise \/ SignalTests \/ SignalNoDiff

(***************************************************************************)
(* C1.  Iteration ceiling: the agent is invoked for the indices 1, 2, ...  *)
(* in increasing order, each once and never beyond maxLoops; a run with    *)
(* maxLoops = N >= 1 that ends with no stop signal true in its last        *)
(* iteration has invoked the agent exactly N times, and ends in "done":    *)
(* nothing but a throwing file-system call of the checkpoint ends a run    *)
(* with an error.                                                          *)
(***************************************************************************)
C1_IterationCeiling ==
  /\ \A k \in 1..Len(invoked) : invoked[k] = k
  /\ Len(invoked) <= config.maxLoops
  /\ (pc = "done" /\ config.maxLoops >= 1 /\ ~AnySignal) => Len(invoked) = config.maxLoops
  /\ (pc = "aborted") => threw # "none"

C1_Witness ==
  /\ pc = "done"
  /\ config.maxLoops >= 2
  /\ ~AnySignal
  /\ Len(invoked) = config.maxLoops

(***************************************************************************)
(* C2.  Early stop on the completion marker: with stopOnPromise enabled,   *)
(* once the transcript of iteration k holds the marker the agent is never  *)
(* invoked again, and the run ends with exactly k invocations, no log unit *)
(* beyond iter-k and the run state written for iteration k last.           *)
(***************************************************************************)
C2_StopOnMarker ==
  /\ (pc = "invoke" /\ invoked # <<>>) => ~SignalPromise
  /\ (pc = "done" /\ SignalPromise) =>
       /\ Len(invoked) = i
       /\ i <= config.maxLoops
       /\ state = StateData(i, TRUE)
       /\ \A k \in (i + 1)..MaxLoops : logs[k] = {}

C2_Witness ==
  /\ pc = "done"
  /\ SignalPromise /\ ~SignalTests /\ ~SignalNoDiff
  /\ Len(invoked) = 1
  /\ config.maxLoops = 2

(***************************************************************************)
(* C3.  Any-true-signal stop rule: the loop goes on to iteration k + 1     *)
(* only if none of the three signals of iteration k is true and            *)
(* k < maxLoops, and it ends after iteration k only if one of them is true *)
(* or k = maxLoops.                                                        *)
(***************************************************************************)
C3_AnySignalStops ==
  /\ (pc = "invoke" /\ invoked # <<>>) => (~AnySignal /\ Len(invoked) < config.maxLoops)
  /\ (pc = "done" /\ invoked # <<>>) => (AnySignal \/ Len(invoked) = config.maxLoops)

\* Tests pass while the status is not empty: the loop stops all the same.
C3_Witness ==
  /\ pc = "done"
  /\ SignalTests
  /\ config.stopOnNoDiff /\ ~SignalNoDiff
  /\ ~SignalPromise
  /\ Len(invoked) < config.maxLoops

(***************************************************************************)
(* C4.  Fixed order of the side effects of an iteration: agent, diff,      *)
(* checkpoint, test command, no-diff status query, commit status query,    *)
(* staging, commit, state write, each at most once; the decision is taken  *)
(* with agent, diff, checkpoint and state write done, and the next         *)
(* invocation starts only after the state write of the iteration before.   *)
(***************************************************************************)
Rank(e) ==
  CASE e = "agent" -> 1
    [] e = "diff" -> 2
    [] e = "checkpoint" -> 3
    [] e = "test" -> 4
    [] e = "status" -> 5
    [] e = "commit status" -> 6
    [] e = "stage" -> 7
    [] e \in {"commit", "commit failed"} -> 8
    [] e = "state" -> 9

C4_SideEffectOrder ==
  /\ \A a, b \in 1..Len(trace) : a < b => Rank(trace[a]) < Rank(trace[b])
  /\ (pc = "decide" \/ IterationOver) =>
       /\ {"agent", "diff", "checkpoint", "state"} \subseteq Range(trace)
       /\ config.commitEachIteration <=> "commit status" \in Range(trace)
       /\ state.written /\ state.iteration = Len(invoked)
  /\ (pc = "invoke" /\ invoked # <<>>) => i = Len(invoked) + 1

C4_Witness ==
  /\ pc = "invoke"
  /\ trace = <<"agent", "diff", "checkpoint", "test", "status", "commit status",
               "stage", "commit", "state">>

(***************************************************************************)
(* C5.  A checkpoint write failure never aborts the iteration: when a      *)
(* file-system call of the iter-i checkpoint throws, the run is not ended  *)
(* and the artifacts after the failing one are written all the same.       *)
(***************************************************************************)
C5_WriteFailureTolerated ==
  (invoked # <<>> /\ threw # "none") =>
     /\ pc # "aborted"
     /\ "meta.json" \in logs[Len(invoked)] \/ threw = "meta.json"

(***************************************************************************)
(* C6.  A failed agent invocation (exit status other than 0, spawn error,  *)
(* killed by a signal) does not end the run: the checkpoint of that        *)
(* iteration is attempted and, unless one of its file-system calls throws, *)
(* the stop conditions are evaluated on the captured transcript (empty     *)
(* when there is none), the commit block runs, the run state is written    *)
(* for that iteration, and the loop ends there only on a true signal or at *)
(* maxLoops.                                                               *)
(***************************************************************************)
AgentFailed == invoked # <<>> /\ result.status # JsNum(0)

Captured == IF result.stdout.t = "string" THEN result.stdout.s ELSE NoText

C6_AgentFailureTolerated ==
  /\ (pc = "aborted") => threw # "none"
  /\ (AgentFailed /\ pc \in {"evaluate", "commit", "state", "decide", "invoke", "done"}) =>
       "meta.json" \in logs[Len(invoked)]
  /\ (AgentFailed /\ pc \in {"commit", "state", "decide", "invoke", "done"}) =>
       promiseFound = (config.stopOnPromise /\ Includes(Captured, Marker))
  /\ (AgentFailed /\ pc \in {"decide", "invoke", "done"}) =>
       /\ config.commitEachIteration <=> "commit status" \in Range(trace)
       /\ state.written /\ state.iteration = Len(invoked)
  /\ (AgentFailed /\ pc = "done" /\ ~AnySignal) => Len(invoked) = config.maxLoops

\* The binary could not be spawned in iteration 1; iteration 2 is about to start.
C6_Witness ==
  /\ pc = "invoke"
  /\ Len(invoked) = 1
  /\ result = [status |-> JsNull, stdout |-> JsNull]

(***************************************************************************)
(* C7.  Unconditional three-artifact checkpoint: once the checkpoint step  *)
(* of iteration i has run, iter-i holds a transcript, a diff and a         *)
(* metadata artifact.                                                      *)
(***************************************************************************)
C7_ThreeArtifacts ==
  (invoked # <<>> /\ pc \in {"evaluate", "commit", "state", "decide", "invoke", "done"}) =>
     {"output.txt", "diff.patch", "meta.json"} \subseteq logs[Len(invoked)]

(***************************************************************************)
(* C8.  No-diff stop without commit: with stopOnNoDiff enabled,            *)
(* stopOnTestsPass disabled and allowEmptyCommit false, when the agent     *)
(* changes no file in its first invocation the loop stops after            *)
(* iteration 1 and nothing is staged or committed in it.                   *)
(***************************************************************************)
C8_NoDiffStopsWithoutCommit ==
  ( /\ Len(invoked) = 1
    /\ pc \in {"decide", "invoke", "done"}
    /\ config.stopOnNoDiff /\ ~config.stopOnTestsPass /\ ~config.allowEmptyCommit
    /\ agentTouch = "none" ) =>
     /\ pc # "invoke"
     /\ Range(trace) \cap {"stage", "commit", "commit failed"} = {}

(***************************************************************************)
(* C9.  The test condition is inert when it is not usable: with            *)
(* stopOnTestsPass disabled, or with no test command (an empty one in the  *)
(* configuration, or an empty answer to the prompt builder), no shell      *)
(* command is run for the test condition and the test signal is false.     *)
(***************************************************************************)
NoTestCommand == config.test \in {NoCommand, finalTest(NoCommand, NoCommand)}

C9_TestConditionInert ==
  (pc \notin {"setup", "prompt"} /\ (~config.stopOnTestsPass \/ NoTestCommand)) =>
     /\ "test" \notin Range(trace)
     /\ ~stopOnTests

(***************************************************************************)
(* C10.  A test command that cannot be executed (the shell reports 127 for *)
(* a missing binary; the status is null when the shell cannot be spawned   *)
(* or is killed) gives a false test signal and no error: the commit block  *)
(* and the state write of the iteration follow, and the loop ends there    *)
(* only on another signal or at maxLoops.                                  *)
(***************************************************************************)
TestNotExecuted == "test" \in Range(trace) /\ testStatus \in {JsNull, JsNum(127)}

C10_TestFailureTolerated ==
  /\ TestNotExecuted => (~stopOnTests /\ pc # "aborted")
  /\ (TestNotExecuted /\ pc \in {"decide", "invoke", "done"}) =>
       /\ config.commitEachIteration <=> "commit status" \in Range(trace)
       /\ state.written /\ state.iteration = Len(invoked)
  /\ (TestNotExecuted /\ pc = "done" /\ ~SignalPromise /\ ~SignalNoDiff) =>
       Len(invoked) = config.maxLoops

\* The shell could not be spawned in iteration 1; iteration 2 is about to start.
C10_Witness ==
  /\ pc = "invoke"
  /\ Len(invoked) = 1
  /\ "test" \in Range(trace)
  /\ testStatus = JsNull

(***************************************************************************)
(* C11.  A failed commit does not influence control flow: after the commit *)
(* command of an iteration, failed or not, the run is not ended, the run   *)
(* state is written with that iteration's index and promiseFound, and a    *)
(* next iteration starts exactly when none of the three signals is true    *)
(* and the index is below maxLoops: the commit's outcome is no part of it. *)
(***************************************************************************)
CommitOutcomes == {"commit", "commit failed"}

CommitAttempted == Range(trace) \cap CommitOutcomes # {}

C11_FailedCommitNoEffect ==
  /\ CommitAttempted => pc # "aborted"
  /\ (CommitAttempted /\ pc \in {"decide", "invoke", "done"}) =>
       state = StateData(Len(invoked), promiseFound)
  /\ (CommitAttempted /\ pc \in {"invoke", "done"}) =>
       (pc = "invoke" <=> (~AnySignal /\ Len(invoked) < config.maxLoops))

\* The commit of iteration 1 failed and iteration 2 is about to start.
C11_Witness ==
  /\ pc = "invoke"
  /\ Len(invoked) = 1
  /\ "commit failed" \in Range(trace)

(***************************************************************************)
(* C12.  The commit step is independent of the stop decision: in every     *)
(* iteration, one with a true stop signal included, the commit block       *)
(* stages and commits exactly when commitEachIteration is set and the      *)
(* status it queries is not empty or allowEmptyCommit is set, the state    *)
(* write follows it, and a run that stops on a signal has written the run  *)
(* state for its last iteration.                                           *)
(***************************************************************************)
\* The status the commit block queries lists a change.
Pending(t, uno) == t.staged \/ t.unstaged \/ (t.untracked /\ ~uno)

CommitGate ==
  /\ config.commitEachIteration
  /\ Pending(tree, config.ignoreUntrackedForNoDiff) \/ config.allowEmptyCommit

C12_CommitStep ==
  pc = "commit" =>
    /\ pc' = "state"
    /\ CommitAttempted' <=> CommitGate
    /\ ("commit status" \in Range(trace')) <=> config.commitEachIteration

C12_StoppedAfterStateWrite ==
  (pc = "done" /\ invoked # <<>> /\ AnySignal) =>
     /\ state = StateData(Len(invoked), promiseFound)
     /\ ("commit status" \in Range(trace)) <=> config.commitEachIteration

C12_CommitIndependentOfStop ==
  [][C12_CommitStep]_vars /\ []C12_StoppedAfterStateWrite

\* A run stopped by a signal in an iteration that committed.
C12_Witness ==
  /\ pc = "done"
  /\ AnySignal
  /\ "commit" \in Range(trace)
  /\ state.iteration = Len(invoked)

(***************************************************************************)
(* C13.  The run state is persisted exactly once per executed iteration,   *)
(* the final one included: once iteration i has written it the record      *)
(* holds iteration = i with the runId and the branch of the run start, the *)
(* persisted iteration is at every point the number of invocations started *)
(* or one less, and the record changes only in the state write of an       *)
(* iteration, which raises the persisted iteration by exactly one.         *)
(***************************************************************************)
StateWrites == Cardinality({k \in 1..Len(trace) : trace[k] = "state"})

C13_Persisted ==
  /\ state.iteration \in {Len(invoked), Len(invoked) - 1}
  /\ state.written <=> state.iteration >= 1
  /\ state.written => (state.runId = runId /\ state.branch = branch)
  /\ (invoked # <<>> /\ pc \in {"decide", "invoke", "done"}) =>
       (state.iteration = Len(invoked) /\ StateWrites = 1)
  /\ pc \in {"diff", "checkpoint", "evaluate", "commit", "state"} =>
       (state.iteration = Len(invoked) - 1 /\ StateWrites = 0)

C13_WriteStep ==
  state' # state =>
    /\ pc = "state" /\ pc' = "decide"
    /\ state'.iteration = state.iteration + 1

C14_PersistedCompletionFlag ==
  (invoked # <<>> /\ pc \in {"decide", "invoke", "done"}) =>
     (state.promiseFound <=> Includes(output, Marker))

(***************************************************************************)
(* C15.  The caller can tell why the run ended: what a finished run        *)
(* returns and persists (the exit status of the process and the run state  *)
(* record) determines which of the four outcomes ended it: completion      *)
(* signal observed, tests passed, no pending changes, iteration ceiling.   *)
(***************************************************************************)
\* Why the loop ended, from the signals of its last iteration.
Outcome ==
  IF SignalPromise THEN "completion"
  ELSE IF SignalTests THEN "tests"
  ELSE IF SignalNoDiff THEN "no changes"
  ELSE "ceiling"

\* What main() hands back: it returns nothing, the process exits with 0, and
\* .codex/state.json holds iteration and promiseFound.
Report == [exit |-> 0, iteration |-> state.iteration, promiseFound |-> state.promiseFound]

\* The most a caller who knows the configuration can read off the report.
Decode(cfg, report) ==
  IF report.promiseFound THEN "completion"
  ELSE IF report.iteration >= cfg.maxLoops THEN "ceiling"
  ELSE IF TestsEnabled(cfg) THEN "tests"
  ELSE "no changes"

C15_OutcomeReported ==
  (pc = "done" /\ invoked # <<>>) => Decode(config, Report) = Outcome

(***************************************************************************)
(* C16.  The stop decision is history-free: whether the loop ends after    *)
(* iteration i is a function of the configuration, of i, and of what       *)
(* iteration i itself observed (transcript, test exit code, status         *)
(* output); nothing of the iterations before i is an argument of it, so    *)
(* two runs that agree on these make the same decision at i.               *)
(***************************************************************************)
\* What the iteration that finished last observed.
Observed == [transcript |-> output, testExit |-> testStatus, status |-> porcelain]

StopRule(cfg, k, obs) ==
  \/ cfg.stopOnPromise /\ Includes(obs.transcript, Marker)
  \/ cfg.stopOnTestsPass /\ cfg.test # NoCommand /\ obs.testExit = JsNum(0)
  \/ cfg.stopOnNoDiff /\ obs.status = <<>>
  \/ k >= cfg.maxLoops

C16_HistoryFreeDecision ==
  IterationOver => (pc = "done" <=> StopRule(config, Len(invoked), Observed))

\* Iteration 1 left changes and went on; iteration 2 found an empty status.
C16_Witness ==
  /\ pc = "done"
  /\ Len(invoked) = 2
  /\ SignalNoDiff /\ ~SignalPromise /\ ~SignalTests

(***************************************************************************)
(* C17.  The task payload is constant for the whole run: the input given   *)
(* to the agent in every iteration is the payload snapshot stored in       *)
(* iter-0, also after the agent has rewritten the prompt file.             *)
(***************************************************************************)
C17_PayloadConstant ==
  \A k \in 1..Len(inputs) : JsStr(inputs[k]) = snapshot

(***************************************************************************)
(* C18.  Index 0 of the checkpoint log holds the initial payload snapshot, *)
(* written before the first agent invocation; no loop iteration writes     *)
(* into index 0, and loop iteration i writes into index i only.            *)
(***************************************************************************)
C18_SnapshotHeld ==
  invoked # <<>> => ("prompt.md" \in logs[0] /\ snapshot = JsStr(promptText))

C18_LogStep ==
  logs' # logs =>
    \A k \in DOMAIN logs :
      logs'[k] # logs[k] => k = (IF pc = "snapshot" THEN 0 ELSE Len(invoked)) /\ (k = 0 <=> invoked = <<>>)

C18_IndexZeroReserved == []C18_SnapshotHeld /\ [][C18_LogStep]_vars

(***************************************************************************)
(* C19.  Commit gating: in each iteration a commit is attempted if and     *)
(* only if commitEachIteration is set and the status query of the commit   *)
(* block lists a change or allowEmptyCommit is set; when it is attempted   *)
(* the staging comes first, of everything with stageOnCommit = 'all' and   *)
(* of tracked files only otherwise, and an iteration stages and commits at *)
(* most once.                                                              *)
(***************************************************************************)
Count(seq, set) == Cardinality({k \in 1..Len(seq) : seq[k] \in set})

C19_CommitBlock ==
  pc = "commit" =>
    IF CommitGate
    THEN /\ \E outcome \in CommitOutcomes :
              trace' = trace \o <<"commit status", "stage", outcome>>
         /\ ~tree'.unstaged
         /\ tree'.untracked = (tree.untracked /\ config.stageOnCommit # "all")
    ELSE /\ ~CommitAttempted' /\ "stage" \notin Range(trace')
         /\ tree' = tree

C19_AtMostOnce ==
  /\ Count(trace, CommitOutcomes) <= 1
  /\ Count(trace, {"stage"}) <= 1
  /\ Count(trace, {"stage"}) = Count(trace, CommitOutcomes)

C19_CommitGating == [][C19_CommitBlock]_vars /\ []C19_AtMostOnce

\* A commit of tracked files only, which left the untracked file behind.
C19_Witness ==
  /\ pc = "state"
  /\ "commit" \in Range(trace)
  /\ config.stageOnCommit = "tracked"
  /\ tree.untracked /\ ~tree.unstaged /\ ~tree.staged

(***************************************************************************)
(* C20.  Only the agent mutates tracked files: a tracked file of the       *)
(* working tree gets modified content in the agent invocation only, never  *)
(* in a step of the tool itself (setup, prompt, snapshot, checkpoint,      *)
(* commit block, state write).                                             *)
(***************************************************************************)
C20_TrackedEdit == ~tree.unstaged /\ tree'.unstaged

C20_OnlyAgentMutatesTracked == [][C20_TrackedEdit => pc = "invoke"]_vars

(***************************************************************************)
(* C21.  No-diff signal: it is false when stopOnNoDiff is disabled;        *)
(* otherwise it is true if and only if the tree the iteration ends with    *)
(* has no staged and no unstaged change and, unless                        *)
(* ignoreUntrackedForNoDiff is set, no untracked file; with the flag set   *)
(* the signal is the same whether or not there are untracked files.        *)
(***************************************************************************)
\* The signal a tree gives rise to, with untracked files present or not.
NoDiffOf(cfg, t, untracked) ==
  /\ cfg.stopOnNoDiff
  /\ ~t.staged /\ ~t.unstaged
  /\ cfg.ignoreUntrackedForNoDiff \/ ~untracked

C21_NoDiffSignal ==
  /\ ~config.stopOnNoDiff => ~stopOnNoDiff
  /\ pc = "commit" =>
       /\ stopOnNoDiff = NoDiffOf(config, tree, tree.untracked)
       /\ config.ignoreUntrackedForNoDiff =>
            \A u \in BOOLEAN : stopOnNoDiff = NoDiffOf(config, tree, u)

\* Only an untracked file is pending and the flag is set: the signal is true.
C21_Witness ==
  /\ pc = "commit"
  /\ stopOnNoDiff
  /\ tree.untracked
  /\ config.ignoreUntrackedForNoDiff

(***************************************************************************)
(* C22.  Completion detection is a plain substring test: for every         *)
(* transcript and every completion key, parsePromise returns true if and   *)
(* only if "<key>: true" occurs somewhere in the transcript, whatever      *)
(* stands before and after it, with PROMISE for the key when none is       *)
(* given; it returns false for an empty and for a missing transcript.      *)
(***************************************************************************)
\* needle stands in text between some position a and some position b.
Occurs(text, needle) ==
  \E a \in 0..Len(text) : \E b \in a..Len(text) : SubSeq(text, a + 1, b) = needle

C22_Needle ==
  (IF call.key = JsUndefined THEN completionKey ELSE call.key.s)
    \o <<":", " ", "t", "r", "u", "e">>

C22_SubstringTest ==
  (pc = "return" /\ call.fn = "parsePromise") =>
    /\ ret.t = "boolean"
    /\ call.output \in {JsNull, JsUndefined, JsStr(NoText)} => ret = JsBool(FALSE)
    /\ call.output.t = "string" => ret = JsBool(Occurs(call.output.s, C22_Needle))

\* The marker in the middle of a transcript, found with the default key.
C22_Witness ==
  /\ pc = "return"
  /\ call.fn = "parsePromise"
  /\ call.key = JsUndefined
  /\ call.output = JsStr(<<"x">> \o completionKey \o <<":", " ", "t", "r", "u", "e", "!">>)
  /\ ret = JsBool(TRUE)

(***************************************************************************)
(* C23.  Commit message derivation: the message is the template with {n}   *)
(* replaced by the iteration index and {summary} replaced by the summary   *)
(* as it stands; the summary is the first non-blank line of the            *)
(* transcript, trimmed and cut to at most 72 characters (exactly 72 when   *)
(* the trimmed line has 72 or more), or "updates" when there is no         *)
(* non-blank line; the summary is never empty.                             *)
(***************************************************************************)
\* text with the first occurrence of pattern replaced by the insert, taken
\* character for character.
Literally(text, pattern, insert) ==
  LET last == Len(text) - Len(pattern)
      here(k) == SubSeq(text, k + 1, k + Len(pattern)) = pattern
  IN IF \A k \in 0..last : ~here(k) THEN text
     ELSE LET k == CHOOSE k \in 0..last : here(k) /\ \A j \in 0..(k - 1) : ~here(j)
          IN SubSeq(text, 1, k) \o insert \o SubSeq(text, k + Len(pattern) + 1, Len(text))

\* The lines of the transcript that are not blank, trimmed.
C23_Lines ==
  LET lines == Split(OrEmpty(call.output))
  IN SelectSeq([k \in 1..Len(lines) |-> Trim(lines[k])], LAMBDA l : l # NoText)

C23_Summary ==
  (pc = "return" /\ call.fn = "firstLineSummary") =>
    /\ ret.s # NoText
    /\ C23_Lines = <<>> => ret.s = Updates
    /\ C23_Lines # <<>> =>
         /\ Len(ret.s) <= SummaryLength
         /\ ret.s = SubSeq(C23_Lines[1], 1, Len(ret.s))
         /\ Len(C23_Lines[1]) >= SummaryLength => Len(ret.s) = SummaryLength
         /\ Len(C23_Lines[1]) < SummaryLength => ret.s = C23_Lines[1]

C23_Message ==
  (pc = "return" /\ call.fn = "commitMessage") =>
    ret.s = Literally(Literally(call.template, <<"{", "n", "}">>, Decimal(call.n)),
                      <<"{", "s", "u", "m", "m", "a", "r", "y", "}">>,
                      firstLineSummary(OrEmpty(call.output)))

C23_CommitMessage == C23_Summary /\ C23_Message

(***************************************************************************)
(* C24.  Checkpoint writes are idempotent: writing an index twice with the *)
(* same transcript, diff and metadata leaves the storage as one write      *)
(* leaves it, and a second write to an index overwrites: each artifact it  *)
(* writes holds what the second write gave it and nothing of the first,    *)
(* each artifact it does not write is as it was, and the index has the     *)
(* artifacts of the two writes, each once.                                 *)
(***************************************************************************)
C24_Written(data) == {Attempted(data)[k] : k \in 1..Len(Attempted(data))}

C24_IdempotentWrites ==
  (pc = "return" /\ call.fn = "logIteration" /\ ret.n = 2) =>
    /\ (call.again = call.data /\ call.metaAgain = call.meta) => ret.files = ret.first
    /\ \A f \in DOMAIN ret.files :
         IF f \in C24_Written(call.again)
         THEN ret.files[f] = JsStr(ContentOf(f, call.again, call.metaAgain))
         ELSE ret.files[f] = ret.first[f]
    /\ {f \in DOMAIN ret.files : ret.files[f] # JsNull}
         = logIteration(logIteration({}, call.data, "none").unit, call.again, "none").unit

\* The same transcript, diff and metadata written twice.
C24_Witness ==
  /\ pc = "return"
  /\ call.fn = "logIteration"
  /\ ret.n = 2
  /\ call.again = call.data
  /\ call.metaAgain = call.meta
  /\ call.data.output = PlainText
  /\ ret.files["output.txt"] = JsStr(PlainText)

(***************************************************************************)
(* C25.  A dry run executes nothing: in a run started with --dry-run,      *)
(* whatever the other flags are (--defaults included), the agent binary is *)
(* never executed, neither by the loop nor by the prompt builder, no       *)
(* commit is made, no branch and no worktree is created, and no checkpoint *)
(* log directory is created.                                               *)
(***************************************************************************)
C25_DryRunExecutesNothing ==
  argv.dryRun =>
    /\ invoked = <<>>
    /\ "codex exec --full-auto" \notin executed
    /\ "git worktree add" \notin executed
    /\ "git checkout -b" \notin executed
    /\ Range(trace) \cap CommitOutcomes = {}
    /\ \A k \in DOMAIN logs : logs[k] = {}

(***************************************************************************)
(* C26.  Yolo is blocked without force, whether yolo comes from the        *)
(* command line or from .codex/config.json: the loop never invokes the     *)
(* agent with --yolo unless forceYolo is set, and a run with yolo set and  *)
(* forceYolo not set ends at the checks of the command line, before any    *)
(* file is written, any branch is created, any prompt is built or read,    *)
(* any checkpoint is written and any agent is invoked.  It ends with an    *)
(* error, except that --help, and --print-config when --prompt-only and    *)
(* --run-loop are not given together, print and end with exit status 0.    *)
(***************************************************************************)
C26_YoloWithoutForce ==
  (codex.yolo \/ argv.yolo) /\ ~(codex.forceYolo \/ argv.forceYolo)

C26_NothingDone ==
  /\ tree = CleanTree
  /\ executed = {}
  /\ promptText = NoText
  /\ promptFile = RenderedPrompt
  /\ snapshot = JsNull
  /\ \A k \in DOMAIN logs : logs[k] = {}
  /\ state = NoState
  /\ invoked = <<>>

C26_NeverInvokedWithYolo ==
  (invoked # <<>> /\ "--yolo" \in prepareCodexArgs(codex)) => codex.forceYolo

C27_ExitStatusInteger ==
  (invoked # <<>> /\ "checkpoint" \in Range(trace) /\ "meta.json" \in logs[i]) =>
    MetaOf(result).exitCode.t = "number"

(***************************************************************************)
(* C28.  The decision to stage and commit in an iteration does not depend  *)
(* on ignoreUntrackedForNoDiff: a run that differs in that flag only and   *)
(* sees the same working tree makes the same choice between attempting a   *)
(* commit and not attempting one.                                          *)
(***************************************************************************)
C28_Twin == [config EXCEPT !.ignoreUntrackedForNoDiff = ~@]

C28_CommitIgnoresUntrackedFlag ==
  pc = "commit" => (CommitWanted(config, tree) <=> CommitWanted(C28_Twin, tree))

(***************************************************************************)
(* C29.  With commitEachIteration set and stageOnCommit = 'all', every     *)
(* iteration that ends with pending changes in the working tree, one in    *)
(* which there are only new untracked files included, stages everything    *)
(* and attempts a commit, and a commit that is made leaves no untracked    *)
(* file behind.                                                            *)
(***************************************************************************)
C29_CommitBlock ==
  (/\ pc = "commit"
   /\ config.commitEachIteration
   /\ config.stageOnCommit = "all"
   /\ (tree.staged \/ tree.unstaged \/ tree.untracked))
  => /\ "stage" \in Range(trace')
     /\ Range(trace') \cap CommitOutcomes # {}
     /\ "commit" \in Range(trace') => ~tree'.untracked

C29_StageAllCommitsNewFiles == [][C29_CommitBlock]_vars

(***************************************************************************)
(* C30.  With commitEachIteration and allowEmptyCommit both set, the       *)
(* commit of an iteration can be made whatever the working tree holds:     *)
(* with a clean tree and nothing staged too the commit command is one that *)
(* can succeed.                                                            *)
(***************************************************************************)
C30_CommitMade == Commit /\ "commit" \in Range(trace')

C30_EmptyCommitSucceeds ==
  (pc = "commit" /\ config.commitEachIteration /\ config.allowEmptyCommit) =>
    ENABLED C30_CommitMade

====
